---- MODULE Spec2Model ----
(***************************************************************************)
(* A model of the Cooklang parser (Parser.parse and its helpers) and of    *)
(* the regular expressions of tokens.ts.                                   *)
(*                                                                         *)
(* A JavaScript string is a sequence of one-character strings.  A          *)
(* JavaScript value (undefined, number, string, boolean) is a record with  *)
(* a kind; a number is the fraction num/den in lowest terms.               *)
(***************************************************************************)
EXTENDS Integers, Sequences, FiniteSets, TLC

VARIABLES
    options,                  \* the options the parser was constructed with
    defaultCookwareAmount,    \* Parser.defaultCookwareAmount
    defaultIngredientAmount,  \* Parser.defaultIngredientAmount
    includeStepNumber,        \* Parser.includeStepNumber
    defaultUnits,             \* Parser.defaultUnits
    source,                   \* the argument of parse
    result,                   \* the ParseResult parse returned
    console,                  \* what console.log has written
    quantity,                 \* the argument of parseQuantity
    ret,                      \* what parseQuantity returned
    pc                        \* "ready" before the call, "done" after it

vars == <<options, defaultCookwareAmount, defaultIngredientAmount, includeStepNumber,
          defaultUnits, source, result, console, quantity, ret, pc>>

----------------------------------------------------------------------------
(* Bounds of the model *)

\* sources are concatenations of at most MaxFragments fragments
MaxFragments == 3

\* quantity strings given to parseQuantity have at most MaxQuantityLen characters
MaxQuantityLen == 4

----------------------------------------------------------------------------
(* JavaScript values *)

Undefined == [kind |-> "undefined", num |-> 0, den |-> 1, str |-> <<>>]
NaN == [kind |-> "nan", num |-> 0, den |-> 1, str |-> <<>>]
Num(n) == [kind |-> "number", num |-> n, den |-> 1, str |-> <<>>]
Str(s) == [kind |-> "string", num |-> 0, den |-> 1, str |-> s]
Bool(b) == [kind |-> "boolean", num |-> IF b THEN 1 ELSE 0, den |-> 1, str |-> <<>>]

\* ToBoolean: undefined, NaN, 0, "" and false are falsy
Truthy(v) ==
    CASE v.kind = "undefined" -> FALSE
      [] v.kind = "nan" -> FALSE
      [] v.kind = "number" -> v.num # 0
      [] v.kind = "string" -> v.str # <<>>
      [] v.kind = "boolean" -> v.num = 1

\* a || b
OrElse(v, d) == IF Truthy(v) THEN v ELSE d

\* a ?? b
Nullish(v, d) == IF v.kind = "undefined" THEN d ELSE v

isNaN(v) == v.kind = "nan"

----------------------------------------------------------------------------
(* Characters and strings *)

\* \s of a regular expression, and the characters String.prototype.trim strips
WhiteSpace == {" ", "\t", "\n", "\r"}

\* the characters . of a regular expression does not match
LineTerminator == {"\n", "\r"}

Digit == {"0", "1", "2", "3", "4", "5", "6", "7", "8", "9"}

DigitValue(c) ==
    CASE c = "0" -> 0 [] c = "1" -> 1 [] c = "2" -> 2 [] c = "3" -> 3
      [] c = "4" -> 4 [] c = "5" -> 5 [] c = "6" -> 6 [] c = "7" -> 7
      [] c = "8" -> 8 [] c = "9" -> 9

\* s.substring(from, to) with 0-based from (inclusive) and to (exclusive):
\* both are clamped to 0..s.length and swapped when from > to
substring(s, from, to) ==
    LET clamp(k) == IF k < 0 THEN 0 ELSE IF k > Len(s) THEN Len(s) ELSE k
        f == clamp(from)
        t == clamp(to)
    IN  IF f <= t THEN SubSeq(s, f + 1, t) ELSE SubSeq(s, t + 1, f)

RECURSIVE TrimStart(_)
TrimStart(s) ==
    IF s # <<>> /\ Head(s) \in WhiteSpace THEN TrimStart(Tail(s)) ELSE s

RECURSIVE TrimEnd(_)
TrimEnd(s) ==
    IF s # <<>> /\ s[Len(s)] \in WhiteSpace
    THEN TrimEnd(SubSeq(s, 1, Len(s) - 1)) ELSE s

\* s.trim()
Trim(s) == TrimEnd(TrimStart(s))

\* s.startsWith(c) for a one-character c
startsWith(s, c) == s # <<>> /\ Head(s) = c

\* the 1-based index of the first occurrence of character c in s at or
\* after index from, or 0 when there is none
RECURSIVE IndexOfChar(_, _, _)
IndexOfChar(s, c, from) ==
    IF from > Len(s) THEN 0
    ELSE IF s[from] = c THEN from
    ELSE IndexOfChar(s, c, from + 1)

\* s.split(c) for a one-character separator c: never empty
RECURSIVE Split(_, _)
Split(s, c) ==
    LET i == IndexOfChar(s, c, 1)
    IN  IF i = 0 THEN <<s>>
        ELSE <<SubSeq(s, 1, i - 1)>> \o Split(SubSeq(s, i + 1, Len(s)), c)

\* s.includes(t)
includes(s, t) ==
    \E i \in 1..(Len(s) - Len(t) + 1) : SubSeq(s, i, i + Len(t) - 1) = t

RECURSIVE DigitsValue(_, _)
DigitsValue(s, acc) ==
    IF s = <<>> THEN acc
    ELSE DigitsValue(Tail(s), 10 * acc + DigitValue(Head(s)))

\* Number(v): undefined is NaN; a string is trimmed, the empty string is 0,
\* a string of decimal digits is its value and every other string of the
\* model's characters (none is a sign, a dot or an exponent) is NaN
Number(v) ==
    IF v.kind = "undefined" THEN NaN
    ELSE LET t == Trim(v.str)
         IN  IF \A i \in 1..Len(t) : t[i] \in Digit
             THEN Num(DigitsValue(t, 0))
             ELSE NaN

RECURSIVE Gcd(_, _)
Gcd(a, b) == IF b = 0 THEN a ELSE Gcd(b, a % b)

\* a / b for non-negative numbers a and b with b # 0
Divide(a, b) ==
    LET n == a.num * b.den
        d == a.den * b.num
        g == Gcd(n, d)
    IN  [kind |-> "number", num |-> n \div g, den |-> d \div g, str |-> <<>>]

----------------------------------------------------------------------------
(* parseQuantity and parseUnits *)

parseQuantity(q) ==
    IF ~Truthy(q) \/ Trim(q.str) = <<>> THEN Undefined
    ELSE
        LET trimmed == Trim(q.str)
            parts == Split(trimmed, "/")
            left == Str(parts[1])
            right == IF Len(parts) >= 2 THEN Str(parts[2]) ELSE Undefined
            numLeft == Number(left)
            numRight == Number(right)
        IN  IF Truthy(right) /\ isNaN(numRight) THEN Str(trimmed)
            ELSE IF ~isNaN(numLeft) /\ ~Truthy(numRight) THEN numLeft
            ELSE IF /\ ~isNaN(numLeft)
                    /\ ~isNaN(numRight)
                    /\ ~(startsWith(left.str, "0") \/ startsWith(right.str, "0"))
                 THEN Divide(numLeft, numRight)
            ELSE Str(Trim(trimmed))

parseUnits(units) ==
    IF ~Truthy(units) \/ Trim(units.str) = <<>> THEN Undefined
    ELSE Str(Trim(units.str))

----------------------------------------------------------------------------
(* tokens.ts: the regular expressions.  A match is the 0-based index of    *)
(* its first character and the array m of the matched text (m[1], which is *)
(* match[0]) and the capture groups (m[k + 1] is match[k]), a group that   *)
(* did not take part being undefined.                                      *)

NoMatch == [index |-> -1, m |-> <<>>]

\* match[k], undefined beyond the end of the array
Group(match, k) == IF k + 1 <= Len(match.m) THEN match.m[k + 1] ELSE Undefined

\* the 0-based index just after the match
MatchEnd(match) == match.index + Len(match.m[1].str)

Min(S) == CHOOSE x \in S : \A y \in S : x <= y
Max(S) == CHOOSE x \in S : \A y \in S : x >= y

\* . of a regular expression
Dot(c) == c \notin LineTerminator

IsSpace(c) == c \in WhiteSpace

\* [^@#~[]
NameChar(c) == c \notin {"@", "#", "~", "["}

\* \p{P} among the ASCII characters
Punctuation == {"!", "\"", "#", "%", "&", "'", "(", ")", "*", ",", "-", ".", "/",
                ":", ";", "?", "@", "[", "\\", "]", "_", "{", "}"}

\* [^\s\t\p{Zs}\p{P}]
WordChar(c) == c \notin WhiteSpace /\ c \notin Punctuation

\* the character classes of the expressions, by name
InClass(c, class) ==
    CASE class = "Dot" -> Dot(c)
      [] class = "IsSpace" -> IsSpace(c)
      [] class = "NameChar" -> NameChar(c)
      [] class = "WordChar" -> WordChar(c)

\* every character of s[from..to] (1-based, inclusive) is in the class
AllIn(s, from, to, class) == \A k \in from..to : InClass(s[k], class)

\* the number of consecutive characters of s in the class, from index from
Run(s, from, class) ==
    Max({n \in 0..(Len(s) - from + 1) : AllIn(s, from, from + n - 1, class)})

\* the array of a match of the combined expression tokens: 13 groups, those
\* of the alternative that matched being gs, from group number first
TokenMatch(i, whole, first, gs) ==
    [index |-> i - 1,
     m |-> <<Str(whole)>> \o
           [k \in 1..13 |-> IF k >= first /\ k < first + Len(gs)
                            THEN gs[k - first + 1] ELSE Undefined]]

\* metadata = /^>>\s*(.+?):\s*(.+)/ : the 1-based index where the value
\* starts after the colon at c (\s* is greedy and gives back), 0 when the
\* value cannot match
MetadataValueStart(L, c) ==
    LET run == Run(L, c + 1, "IsSpace")
        S == {v \in 0..run : c + 1 + v <= Len(L) /\ Dot(L[c + 1 + v])}
    IN  IF S = {} THEN 0 ELSE c + 1 + Max(S)

metadata(L) ==
    IF Len(L) < 2 \/ L[1] # ">" \/ L[2] # ">" THEN NoMatch
    ELSE
        LET run == Run(L, 3, "IsSpace")
            \* <<w, c>>: \s* takes w characters and the key ends before the colon at c
            C == {x \in (0..run) \X (1..Len(L)) :
                    /\ x[2] >= 3 + x[1] + 1
                    /\ L[x[2]] = ":"
                    /\ AllIn(L, 3 + x[1], x[2] - 1, "Dot")
                    /\ MetadataValueStart(L, x[2]) # 0}
        IN  IF C = {} THEN NoMatch
            ELSE
                LET w == Max({x[1] : x \in C})
                    c == Min({x[2] : x \in {y \in C : y[1] = w}})
                    vs == MetadataValueStart(L, c)
                    ve == vs + Run(L, vs, "Dot") - 1
                IN  TokenMatch(1, SubSeq(L, 1, ve), 1,
                               <<Str(SubSeq(L, 3 + w, c - 1)), Str(SubSeq(L, vs, ve))>>)

\* the 1-based indexes of the opening braces that can end the name
\* ([^@#~[]+?) of a multiword form whose lead character is at i
NameBraces(L, i) ==
    {b \in (i + 2)..Len(L) : L[b] = "{" /\ AllIn(L, i + 1, b - 1, "NameChar")}

\* after the brace at b, \{([^]*?)(?:%([^}]+?))?\} : the indexes e where the
\* quantity can end (before a % that starts units, or before the closing brace)
IngredientQuantityEnds(L, b) ==
    {e \in (b + 1)..Len(L) :
        \/ L[e] = "}"
        \/ L[e] = "%" /\ IndexOfChar(L, "}", e + 1) >= e + 2}

\* multiwordIngredient = /@([^@#~[]+?)\{([^]*?)(?:%([^}]+?))?\}(?:\(([^]*?)\))?/
multiwordIngredient(L, i) ==
    LET B == {b \in NameBraces(L, i) : IngredientQuantityEnds(L, b) # {}}
    IN  IF L[i] # "@" \/ B = {} THEN NoMatch
        ELSE
            LET b == Min(B)
                e == Min(IngredientQuantityEnds(L, b))
                r == IF L[e] = "}" THEN e ELSE IndexOfChar(L, "}", e + 1)
                units == IF L[e] = "}" THEN Undefined ELSE Str(SubSeq(L, e + 1, r - 1))
                cp == IF r + 1 <= Len(L) /\ L[r + 1] = "("
                      THEN IndexOfChar(L, ")", r + 2) ELSE 0
                preparation == IF cp = 0 THEN Undefined ELSE Str(SubSeq(L, r + 2, cp - 1))
                end == IF cp = 0 THEN r ELSE cp
            IN  TokenMatch(i, SubSeq(L, i, end), 3,
                           <<Str(SubSeq(L, i + 1, b - 1)), Str(SubSeq(L, b + 1, e - 1)),
                             units, preparation>>)

\* singleWordIngredient = /@([^\s\t\p{Zs}\p{P}]+)/
singleWordIngredient(L, i) ==
    LET n == Run(L, i + 1, "WordChar")
    IN  IF L[i] # "@" \/ n = 0 THEN NoMatch
        ELSE TokenMatch(i, SubSeq(L, i, i + n), 7, <<Str(SubSeq(L, i + 1, i + n))>>)

\* after the brace at b, (.*?)\} : the index of the closing brace, 0 when
\* a character . does not match comes first or there is none
DotBraceEnd(L, b) ==
    LET r == IndexOfChar(L, "}", b + 1)
    IN  IF r # 0 /\ AllIn(L, b + 1, r - 1, "Dot") THEN r ELSE 0

\* multiwordCookware = /#([^@#~[]+?)\{(.*?)\}/
multiwordCookware(L, i) ==
    LET B == {b \in NameBraces(L, i) : DotBraceEnd(L, b) # 0}
    IN  IF L[i] # "#" \/ B = {} THEN NoMatch
        ELSE
            LET b == Min(B)
                r == DotBraceEnd(L, b)
            IN  TokenMatch(i, SubSeq(L, i, r), 8,
                           <<Str(SubSeq(L, i + 1, b - 1)), Str(SubSeq(L, b + 1, r - 1))>>)

\* singleWordCookware = /#([^\s\t\p{Zs}\p{P}]+)/
singleWordCookware(L, i) ==
    LET n == Run(L, i + 1, "WordChar")
    IN  IF L[i] # "#" \/ n = 0 THEN NoMatch
        ELSE TokenMatch(i, SubSeq(L, i, i + n), 10, <<Str(SubSeq(L, i + 1, i + n))>>)

\* after the brace at b, \{(.*?)(?:%(.*?))?\} : the indexes e where the
\* quantity can end
TimerQuantityEnds(L, b) ==
    {e \in (b + 1)..Len(L) :
        /\ AllIn(L, b + 1, e - 1, "Dot")
        /\ \/ L[e] = "}"
           \/ L[e] = "%" /\ DotBraceEnd(L, e) # 0}

\* timer = /~(.*?)(?:\{(.*?)(?:%(.*?))?\})/
timer(L, i) ==
    LET B == {b \in (i + 1)..Len(L) :
                /\ L[b] = "{"
                /\ AllIn(L, i + 1, b - 1, "Dot")
                /\ TimerQuantityEnds(L, b) # {}}
    IN  IF L[i] # "~" \/ B = {} THEN NoMatch
        ELSE
            LET b == Min(B)
                e == Min(TimerQuantityEnds(L, b))
                r == IF L[e] = "}" THEN e ELSE DotBraceEnd(L, e)
                units == IF L[e] = "}" THEN Undefined ELSE Str(SubSeq(L, e + 1, r - 1))
            IN  TokenMatch(i, SubSeq(L, i, r), 11,
                           <<Str(SubSeq(L, i + 1, b - 1)), Str(SubSeq(L, b + 1, e - 1)), units>>)

\* the first of the matches ms that is a match: an alternation takes its
\* first alternative that matches
FirstMatch(ms) ==
    IF \A k \in 1..Len(ms) : ms[k] = NoMatch THEN NoMatch
    ELSE ms[Min({k \in 1..Len(ms) : ms[k] # NoMatch})]

\* the alternatives of tokens in their order, tried at the 1-based index i
\* (^ lets metadata match at the start of the line only)
TokenAt(L, i) ==
    FirstMatch(<<IF i = 1 THEN metadata(L) ELSE NoMatch,
                 multiwordIngredient(L, i), singleWordIngredient(L, i),
                 multiwordCookware(L, i), singleWordCookware(L, i), timer(L, i)>>)

\* line.matchAll(tokens): the matches from the 1-based index from, leftmost
\* first; match is the outcome of the expression at from
RECURSIVE TokenMatches(_, _)
RECURSIVE TokenMatchesWith(_, _, _)
TokenMatchesWith(L, from, match) ==
    IF match = NoMatch THEN TokenMatches(L, from + 1)
    ELSE <<match>> \o TokenMatches(L, MatchEnd(match) + 1)

TokenMatches(L, from) ==
    IF from > Len(L) THEN <<>> ELSE TokenMatchesWith(L, from, TokenAt(L, from))

----------------------------------------------------------------------------
(* Preprocessing: comments and shopping lists *)

\* the 1-based index of the first occurrence of the characters a b in s at
\* or after index from, or 0 when there is none
RECURSIVE IndexOfPair(_, _, _, _)
IndexOfPair(s, a, b, from) ==
    IF from + 1 > Len(s) THEN 0
    ELSE IF s[from] = a /\ s[from + 1] = b THEN from
    ELSE IndexOfPair(s, a, b, from + 1)

\* source.replace(comment, "") with comment = /--.*/g
RECURSIVE replaceComment(_)
replaceComment(s) ==
    LET i == IndexOfPair(s, "-", "-", 1)
    IN  IF i = 0 THEN s
        ELSE SubSeq(s, 1, i - 1)
             \o replaceComment(SubSeq(s, i + 2 + Run(s, i + 2, "Dot"), Len(s)))

\* blockComment = /\s*\[\-[\s\S]*?\-\]\s*/g tried at the 1-based index i:
\* the index of the last character of the match, 0 when there is none
blockCommentEnd(s, i) ==
    LET open == i + Run(s, i, "IsSpace")
        close == IF open + 1 <= Len(s) /\ s[open] = "[" /\ s[open + 1] = "-"
                 THEN IndexOfPair(s, "-", "]", open + 2) ELSE 0
    IN  IF close = 0 THEN 0 ELSE close + 1 + Run(s, close + 2, "IsSpace")

\* source.replace(blockComment, " ")
RECURSIVE replaceBlockComment(_)
replaceBlockComment(s) ==
    IF s = <<>> THEN s
    ELSE LET end == blockCommentEnd(s, 1)
         IN  IF end = 0 THEN <<Head(s)>> \o replaceBlockComment(Tail(s))
             ELSE <<" ">> \o replaceBlockComment(SubSeq(s, end + 1, Len(s)))

\* shoppingList = /\n\s*\[(.+)\]\n([^]*?)(?:\n\n|$)/g tried at the 1-based
\* index i of s: the match, with its two groups
shoppingListRegex(s, i) ==
    LET j == i + 1 + Run(s, i + 1, "IsSpace")
        n == IF j <= Len(s) THEN Run(s, j + 1, "Dot") ELSE 0
        \* (.+) is greedy and gives back until ]\n follows
        K == {k \in (j + 2)..(j + n) : s[k] = "]" /\ k + 1 <= Len(s) /\ s[k + 1] = "\n"}
    IN  IF s[i] # "\n" \/ j > Len(s) \/ s[j] # "[" \/ K = {} THEN NoMatch
        ELSE
            LET k == Max(K)
                blank == IndexOfPair(s, "\n", "\n", k + 2)
                e == IF blank = 0 THEN Len(s) + 1 ELSE blank
                end == IF blank = 0 THEN Len(s) ELSE blank + 1
            IN  [index |-> i - 1,
                 m |-> <<Str(SubSeq(s, i, end)), Str(SubSeq(s, j + 1, k - 1)),
                         Str(SubSeq(s, k + 2, e - 1))>>]

\* source.matchAll(shoppingListRegex) from the 1-based index from; match
\* is the outcome of the expression at from
RECURSIVE shoppingListMatches(_, _)
RECURSIVE shoppingListMatchesWith(_, _, _)
shoppingListMatchesWith(s, from, match) ==
    IF match = NoMatch THEN shoppingListMatches(s, from + 1)
    ELSE <<match>> \o shoppingListMatches(s, MatchEnd(match) + 1)

shoppingListMatches(s, from) ==
    IF from > Len(s) THEN <<>>
    ELSE shoppingListMatchesWith(s, from, shoppingListRegex(s, from))

\* the table of createNamedGroups: the group numbers of each expression
groupMappings(type) ==
    CASE type = "metadata" -> [key |-> 1, value |-> 2]
      [] type = "multiwordIngredient" ->
            [mIngredientName |-> 3, mIngredientQuantity |-> 4,
             mIngredientUnits |-> 5, mIngredientPreparation |-> 6]
      [] type = "singleWordIngredient" -> [sIngredientName |-> 7]
      [] type = "multiwordCookware" -> [mCookwareName |-> 8, mCookwareQuantity |-> 9]
      [] type = "singleWordCookware" -> [sCookwareName |-> 10]
      [] type = "timer" -> [timerName |-> 11, timerQuantity |-> 12, timerUnits |-> 13]
      [] type = "shoppingList" -> [name |-> 14, items |-> 15]

\* createNamedGroups(match, type): the named groups (a group that was not
\* captured is undefined)
createNamedGroups(match, type) ==
    LET mapping == groupMappings(type)
    IN  [g \in DOMAIN mapping |-> Group(match, mapping[g])]

\* what createNamedGroups(match, type) writes with console.log
createNamedGroupsLog(match, type) ==
    IF type = "singleWordIngredient" /\ includes(match.m[1].str, <<"o", "i", "l">>)
    THEN <<[type |-> type, match |-> match]>>
    ELSE <<>>

\* an object as the set of its entries: object[key] = value
SetKey(object, key, value) ==
    {e \in object : e.key # key} \cup {[key |-> key, value |-> value]}

HasKey(object, key) == \E e \in object : e.key = key

GetKey(object, key) == (CHOOSE e \in object : e.key = key).value

RECURSIVE shoppingListItems(_)
shoppingListItems(lines) ==
    IF lines = <<>> THEN <<>>
    ELSE
        LET item == Trim(Head(lines))
            parts == Split(item, "|")
            synonym == IF Len(parts) >= 2 THEN Str(Trim(parts[2])) ELSE Undefined
        IN  (IF item = <<>> THEN <<>>
             ELSE <<[name |-> Trim(parts[1]), synonym |-> OrElse(synonym, Str(<<>>)).str]>>)
            \o shoppingListItems(Tail(lines))

parseShoppingListCategory(items) == shoppingListItems(Split(items, "\n"))

\* one turn of the loop over the shopping list matches; st is the
\* shoppingList object and the working source
shoppingListStep(st, match) ==
    LET groups == createNamedGroups(match, "shoppingList")
    IN  IF ~Truthy(groups.name) THEN st
        ELSE [shoppingList |->
                  SetKey(st.shoppingList, groups.name.str,
                         parseShoppingListCategory(OrElse(groups.items, Str(<<>>)).str)),
              source |-> substring(st.source, 0, match.index)]

RECURSIVE shoppingListLoop(_, _)
shoppingListLoop(st, matches) ==
    IF matches = <<>> THEN st
    ELSE shoppingListLoop(shoppingListStep(st, Head(matches)), Tail(matches))

\* source.split(/\r?\n/)
RECURSIVE splitLines(_)
splitLines(s) ==
    LET i == IndexOfChar(s, "\n", 1)
        cut == IF i >= 2 /\ s[i - 1] = "\r" THEN i - 2 ELSE i - 1
    IN  IF i = 0 THEN <<s>>
        ELSE <<SubSeq(s, 1, cut)>> \o splitLines(SubSeq(s, i + 1, Len(s)))

\* .filter((l) => l.trim().length > 0)
nonBlank(lines) == SelectSeq(lines, LAMBDA l : Len(Trim(l)) > 0)

----------------------------------------------------------------------------
(* Parser.parse *)

\* a step item; a property the item does not have is undefined
Item(type, name, qty, units, preparation, value) ==
    [type |-> type, name |-> name, quantity |-> qty, units |-> units,
     preparation |-> preparation, step |-> Undefined, value |-> value]

Text(value) == Item("text", Undefined, Undefined, Undefined, Undefined, Str(value))

\* withStepNumber with the steps counted from 1
withStepNumberFromOne(item, stepNumber) ==
    IF Truthy(includeStepNumber) THEN [item EXCEPT !.step = Num(stepNumber + 1)] ELSE item

\* if (this.includeStepNumber) item.step = stepNumber
withStepNumber(item, stepNumber) ==
    IF Truthy(includeStepNumber) THEN [item EXCEPT !.step = Num(stepNumber)] ELSE item

\* pushIngredient without ingredients.push(ingredient)
pushIngredientStepOnly(st, ingredient) ==
    [st EXCEPT !.step = Append(@, ingredient)]

\* ingredients.push(ingredient); step.push(ingredient)
pushIngredient(st, ingredient) ==
    [st EXCEPT !.ingredients = Append(@, ingredient), !.step = Append(@, ingredient)]

\* cookwares.push(cookware); step.push(cookware)
pushCookware(st, cookware) ==
    [st EXCEPT !.cookwares = Append(@, cookware), !.step = Append(@, cookware)]

\* the text between the previous match and this one
pushText(st, line, match) ==
    IF st.pos < match.index
    THEN [st EXCEPT !.step = Append(@, Text(substring(line, st.pos, match.index)))]
    ELSE st

singleWordIngredientItem(st, match, stepNumber) ==
    LET sIngredientGroup == createNamedGroups(match, "singleWordIngredient")
        logged == [st EXCEPT !.console =
                       @ \o createNamedGroupsLog(match, "singleWordIngredient")]
    IN  IF Truthy(sIngredientGroup.sIngredientName)
        THEN pushIngredient(logged,
                 withStepNumber(Item("ingredient", sIngredientGroup.sIngredientName,
                                     defaultIngredientAmount, defaultUnits,
                                     Undefined, Undefined), stepNumber))
        ELSE logged

\* ingredientQuantity with || in the place of ??
ingredientQuantityOr(mIngredientGroup) ==
    OrElse(parseQuantity(mIngredientGroup.mIngredientQuantity), defaultIngredientAmount)

\* parseQuantity(mIngredientGroup.mIngredientQuantity) ?? this.defaultIngredientAmount
ingredientQuantity(mIngredientGroup) ==
    Nullish(parseQuantity(mIngredientGroup.mIngredientQuantity), defaultIngredientAmount)

multiwordIngredientItem(st, match, stepNumber) ==
    LET mIngredientGroup == createNamedGroups(match, "multiwordIngredient")
    IN  IF Truthy(mIngredientGroup.mIngredientName)
        THEN pushIngredient(st,
                 withStepNumber(Item("ingredient", mIngredientGroup.mIngredientName,
                                     ingredientQuantity(mIngredientGroup),
                                     Nullish(parseUnits(mIngredientGroup.mIngredientUnits),
                                             defaultUnits),
                                     IF Truthy(mIngredientGroup.mIngredientPreparation)
                                     THEN mIngredientGroup.mIngredientPreparation
                                     ELSE Undefined,
                                     Undefined), stepNumber))
        ELSE st

singleWordCookwareItem(st, match, stepNumber) ==
    LET sCookwareGroup == createNamedGroups(match, "singleWordCookware")
    IN  IF Truthy(sCookwareGroup.sCookwareName)
        THEN pushCookware(st,
                 withStepNumber(Item("cookware", sCookwareGroup.sCookwareName,
                                     defaultCookwareAmount, Undefined,
                                     Undefined, Undefined), stepNumber))
        ELSE st

\* parseQuantity(mCookwareGroup?.mCookwareQuantity) ?? this.defaultCookwareAmount
cookwareQuantity(mCookwareGroup) ==
    Nullish(parseQuantity(mCookwareGroup.mCookwareQuantity), defaultCookwareAmount)

multiwordCookwareItem(st, match, stepNumber) ==
    LET mCookwareGroup == createNamedGroups(match, "multiwordCookware")
    IN  IF Truthy(mCookwareGroup.mCookwareName)
        THEN pushCookware(st,
                 withStepNumber(Item("cookware", mCookwareGroup.mCookwareName,
                                     cookwareQuantity(mCookwareGroup), Undefined,
                                     Undefined, Undefined), stepNumber))
        ELSE st

timerItem(st, match) ==
    LET timerGroup == createNamedGroups(match, "timer")
    IN  IF Truthy(timerGroup.timerQuantity)
        THEN [st EXCEPT !.step = Append(@,
                 Item("timer", timerGroup.timerName,
                      Nullish(parseQuantity(timerGroup.timerQuantity), Num(0)),
                      Nullish(parseUnits(timerGroup.timerUnits), defaultUnits),
                      Undefined, Undefined))]
        ELSE st

\* the body of the loop over the matches of a line.  st holds the step
\* under construction, the flat lists, the metadata, pos, the console and
\* whether continue stepLoop has abandoned the line
tokenStep(st, line, match, stepNumber) ==
    LET metadataGroups == createNamedGroups(match, "metadata")
    IN  IF Truthy(metadataGroups.key) /\ Truthy(metadataGroups.value)
        THEN [st EXCEPT !.metadata = SetKey(@, Trim(metadataGroups.key.str),
                                            Trim(metadataGroups.value.str)),
                        !.abandoned = TRUE]
        ELSE
            LET s1 == pushText(st, line, match)
                s2 == singleWordIngredientItem(s1, match, stepNumber)
                s3 == multiwordIngredientItem(s2, match, stepNumber)
                s4 == singleWordCookwareItem(s3, match, stepNumber)
                s5 == multiwordCookwareItem(s4, match, stepNumber)
                s6 == timerItem(s5, match)
            IN  [s6 EXCEPT !.pos = MatchEnd(match)]

RECURSIVE tokenLoop(_, _, _, _)
tokenLoop(st, line, matches, stepNumber) ==
    IF matches = <<>> \/ st.abandoned THEN st
    ELSE tokenLoop(tokenStep(st, line, Head(matches), stepNumber),
                   line, Tail(matches), stepNumber)

\* if (pos < line.length) step.push({ type: "text", value: line.substring(pos) })
restOfLine(st, line) ==
    IF st.pos < Len(line)
    THEN [st EXCEPT !.step = Append(@, Text(substring(line, st.pos, Len(line))))]
    ELSE st

\* if (step.length > 0) { steps.push(step); stepNumber++ }
appendStep(acc, step) ==
    IF Len(step) > 0
    THEN [acc EXCEPT !.steps = Append(@, step), !.stepNumber = @ + 1]
    ELSE acc

\* the end of the body of stepLoop: st is the state the loop over the
\* matches of the line left.  The flat lists, the metadata and the console
\* keep what the loop did; the step is appended unless continue stepLoop
\* abandoned the line
lineEnd(acc, line, st) ==
    IF st.abandoned
    THEN [acc EXCEPT !.ingredients = st.ingredients, !.cookwares = st.cookwares,
                     !.metadata = st.metadata, !.console = st.console]
    ELSE appendStep([acc EXCEPT !.ingredients = st.ingredients,
                                !.cookwares = st.cookwares,
                                !.metadata = st.metadata, !.console = st.console],
                    restOfLine(st, line).step)

\* the body of stepLoop for one line.  acc holds the flat lists, the
\* metadata, the steps, stepNumber and the console
lineStep(acc, line) ==
    lineEnd(acc, line,
            tokenLoop([step |-> <<>>, ingredients |-> acc.ingredients,
                       cookwares |-> acc.cookwares, metadata |-> acc.metadata,
                       pos |-> 0, console |-> acc.console, abandoned |-> FALSE],
                      line, TokenMatches(line, 1), acc.stepNumber))

RECURSIVE stepLoop(_, _)
stepLoop(acc, lines) ==
    IF lines = <<>> THEN acc
    ELSE stepLoop(lineStep(acc, Head(lines)), Tail(lines))

\* source.replace(comment, "").replace(blockComment, " ")
stripComments(src) == replaceBlockComment(replaceComment(src))

\* the loop over the shopping list blocks of the stripped source: the
\* shoppingList object and the working source it leaves
shoppingLists(stripped) ==
    shoppingListLoop([shoppingList |-> {}, source |-> stripped],
                     shoppingListMatches(stripped, 1))

\* source.split(/\r?\n/).filter((l) => l.trim().length > 0)
sourceLines(working) == nonBlank(splitLines(working))

\* stepLoop over the lines of the working source
parseSteps(working, out) ==
    stepLoop([ingredients |-> <<>>, cookwares |-> <<>>, metadata |-> {},
              steps |-> <<>>, stepNumber |-> 0, console |-> out],
             sourceLines(working))

\* return { ingredients, cookwares, metadata, steps, shoppingList }, and the
\* console after the call
parseReturn(shoppingList, acc) ==
    [result |-> [ingredients |-> acc.ingredients, cookwares |-> acc.cookwares,
                 metadata |-> acc.metadata, steps |-> acc.steps,
                 shoppingList |-> shoppingList],
     console |-> acc.console]

\* parse after the shopping list loop, which left sl
parseLines(sl, out) == parseReturn(sl.shoppingList, parseSteps(sl.source, out))

\* parse(source): the ParseResult, and the console after the call
parse(src, out) == parseLines(shoppingLists(stripComments(src)), out)

----------------------------------------------------------------------------
(* The inputs *)

\* the concatenations of at most n strings of F
RECURSIVE Concatenations(_, _)
Concatenations(F, n) ==
    IF n = 0 THEN {<<>>}
    ELSE LET shorter == Concatenations(F, n - 1)
         IN  shorter \cup {s \o f : s \in shorter, f \in F}

\* pieces of recipe lines: annotations, braces, text, a metadata line
Fragments ==
    { <<"@", "a">>, <<"#", "a">>, <<"~">>, <<"x">>, <<" ">>, <<"\n">>,
      <<"{", "}">>, <<"{", "0", "}">>, <<"{", " ", "}">>,
      <<"{", "1", "/", "2", "%", "g", "}">>, <<"(", "p", ")">>,
      <<"@", "o", "i", "l">>, <<">", ">", "k", ":", "v">> }

Sources == Concatenations(Fragments, MaxFragments)

\* pieces of comments and of shopping list blocks
PreprocessFragments ==
    { <<"[", "-", " ">>, <<" ", "-", "]">>, <<"-", "-">>, <<"c">>, <<" ">>, <<"\n">>,
      <<"@", "a">>, <<"x">>, <<"\n", "[", "k", "]", "\n">>, <<"i", "|", "j">>,
      <<"\n", "\n">> }

PreprocessSources == Concatenations(PreprocessFragments, MaxFragments)

QuantityAlphabet == {"0", "1", "2", "/", " ", "a"}

RECURSIVE Strings(_, _)
Strings(A, n) ==
    IF n = 0 THEN {<<>>}
    ELSE LET shorter == Strings(A, n - 1)
         IN  shorter \cup {Append(s, c) : s \in shorter, c \in A}

\* parseQuantity(quantity?: string)
Quantities == {Undefined} \cup {Str(s) : s \in Strings(QuantityAlphabet, MaxQuantityLen)}

\* the options given to the constructor: none, or all three
Options ==
    { [defaultCookwareAmount |-> Undefined, defaultIngredientAmount |-> Undefined,
       includeStepNumber |-> Undefined],
      [defaultCookwareAmount |-> Str(<<"o", "n", "e">>), defaultIngredientAmount |-> Num(2),
       includeStepNumber |-> Bool(TRUE)] }

----------------------------------------------------------------------------
(* The state machine *)

EmptyResult ==
    [ingredients |-> <<>>, cookwares |-> <<>>, metadata |-> {}, steps |-> <<>>,
     shoppingList |-> {}]

\* new Parser(opts)
Constructed(opts) ==
    /\ options = opts
    /\ defaultCookwareAmount = Nullish(opts.defaultCookwareAmount, Num(1))
    /\ defaultIngredientAmount =
           Nullish(opts.defaultIngredientAmount, Str(<<"s", "o", "m", "e">>))
    /\ includeStepNumber = Nullish(opts.includeStepNumber, Bool(FALSE))
    /\ defaultUnits = Str(<<>>)

\* a parser and the source it is about to parse
InitWith(sources) ==
    /\ \E opts \in Options : Constructed(opts)
    /\ source \in sources
    /\ result = EmptyResult
    /\ console = <<>>
    /\ quantity = Undefined
    /\ ret = Undefined
    /\ pc = "parse"

Init == InitWith(Sources)

InitPreprocess == InitWith(PreprocessSources)

\* a quantity string parseQuantity is about to be called with
InitQuantity ==
    /\ \E opts \in Options : Constructed(opts)
    /\ source = <<>>
    /\ result = EmptyResult
    /\ console = <<>>
    /\ quantity \in Quantities
    /\ ret = Undefined
    /\ pc = "parseQuantity"

\* the call returns r.result, having written r.console
Returned(r) ==
    /\ result' = r.result
    /\ console' = r.console

\* parser.parse(source)
Parse ==
    /\ pc = "parse"
    /\ Returned(parse(source, console))
    /\ pc' = "done"
    /\ UNCHANGED <<options, defaultCookwareAmount, defaultIngredientAmount, includeStepNumber,
                   defaultUnits, source, quantity, ret>>

\* parseQuantity(quantity)
ParseQuantity ==
    /\ pc = "parseQuantity"
    /\ ret' = parseQuantity(quantity)
    /\ pc' = "done"
    /\ UNCHANGED <<options, defaultCookwareAmount, defaultIngredientAmount, includeStepNumber,
                   defaultUnits, source, result, console, quantity>>

Next == Parse

NextQuantity == ParseQuantity

Spec == Init /\ [][Next]_vars

SpecPreprocess == InitPreprocess /\ [][Next]_vars

SpecQuantity == InitQuantity /\ [][NextQuantity]_vars

----------------------------------------------------------------------------
(* What the claims speak of *)

\* the items of all the steps, in step order and left to right
RECURSIVE Flatten(_)
Flatten(seqs) == IF seqs = <<>> THEN <<>> ELSE Head(seqs) \o Flatten(Tail(seqs))

OfType(items, type) == SelectSeq(items, LAMBDA x : x.type = type)

StepItems == Flatten(result.steps)

\* the ingredient and cookware items of the result, wherever they are
Annotated ==
    {x \in {StepItems[k] : k \in 1..Len(StepItems)}
           \cup {result.ingredients[k] : k \in 1..Len(result.ingredients)}
           \cup {result.cookwares[k] : k \in 1..Len(result.cookwares)} :
        x.type \in {"ingredient", "cookware"}}

\* the matches of tokens on a line that yields a step (a line that starts
\* with a metadata match yields none)
LineMatches(line) ==
    LET ms == TokenMatches(line, 1)
    IN  IF ms # <<>> /\ Truthy(Group(ms[1], 1)) THEN <<>> ELSE ms

RECURSIVE MatchesOfLines(_)
MatchesOfLines(lines) ==
    IF lines = <<>> THEN <<>>
    ELSE LineMatches(Head(lines)) \o MatchesOfLines(Tail(lines))

\* the annotations of the source that start with the character lead, in order
Annotations(lead) ==
    SelectSeq(MatchesOfLines(sourceLines(shoppingLists(stripComments(source)).source)),
              LAMBDA m : Head(m.m[1].str) = lead)

\* a captured group that supplies nothing: absent, empty or only whitespace
Blank(v) == v.kind = "undefined" \/ Trim(v.str) = <<>>

\* item carries the quantity written in group q, or the default when none is written
QuantityAsWritten(item, q, default) ==
    /\ item.quantity # Undefined
    /\ Blank(q) => item.quantity = default
    /\ ~Blank(q) => item.quantity = parseQuantity(q)
    /\ (~Blank(q) /\ Trim(q.str) = <<"0">>) => item.quantity = Num(0)

\* C1: after parse, ingredients is exactly the sequence of the Ingredient
\* items met walking the steps in order and each step left to right, and
\* cookwares the same for the Cookware items: same elements, same order, same
\* multiplicity; no Text and no Timer is in either list.
C1_FlatListsAreTheWalkOfSteps ==
    pc = "done" =>
        /\ result.ingredients = OfType(StepItems, "ingredient")
        /\ result.cookwares = OfType(StepItems, "cookware")

\* C1 witness: a result with the same ingredient twice and a cookware
C1_Witness ==
    /\ pc = "done"
    /\ Len(result.ingredients) >= 2
    /\ result.ingredients[1] = result.ingredients[2]
    /\ Len(result.cookwares) >= 1

\* C8: after parse, every Ingredient and Cookware item has a quantity; it is
\* the configured default (defaultIngredientAmount, "some" when not
\* configured; defaultCookwareAmount, 1 when not configured) when the source
\* writes none (single-word form, empty or blank braces), and a written
\* quantity, 0 included, is kept.
C8_QuantityIsWrittenOrDefault ==
    pc = "done" =>
        LET im == Annotations("@")
            cm == Annotations("#")
        IN  /\ options.defaultIngredientAmount = Undefined
                  => defaultIngredientAmount = Str(<<"s", "o", "m", "e">>)
            /\ options.defaultCookwareAmount = Undefined => defaultCookwareAmount = Num(1)
            /\ Len(im) = Len(result.ingredients)
            /\ Len(cm) = Len(result.cookwares)
            /\ \A k \in 1..Len(im) :
                   QuantityAsWritten(result.ingredients[k], Group(im[k], 4),
                                     defaultIngredientAmount)
            /\ \A k \in 1..Len(cm) :
                   QuantityAsWritten(result.cookwares[k], Group(cm[k], 9),
                                     defaultCookwareAmount)

\* C8 witness: an ingredient written with quantity 0 beside one with no
\* quantity, the default not being 0
C8_Witness ==
    /\ pc = "done"
    /\ defaultIngredientAmount # Num(0)
    /\ \E i, j \in 1..Len(result.ingredients) :
           /\ result.ingredients[i].quantity = Num(0)
           /\ result.ingredients[j].quantity = defaultIngredientAmount

C2_ShoppingListHoldsEveryBlock ==
    pc = "done" =>
        LET blocks == shoppingListMatches(stripComments(source), 1)
            category(k) == Trim(blocks[k].m[2].str)
        IN  \A k \in 1..Len(blocks) :
                /\ HasKey(result.shoppingList, category(k))
                /\ (\A l \in (k + 1)..Len(blocks) : category(l) # category(k))
                       => GetKey(result.shoppingList, category(k))
                              = parseShoppingListCategory(blocks[k].m[3].str)

\* the stripped source with every shopping list block taken out, the lines
\* around a block staying apart
RECURSIVE WithoutBlocks(_, _, _)
WithoutBlocks(s, blocks, i) ==
    IF i > Len(s) THEN <<>>
    ELSE IF \E k \in 1..Len(blocks) : blocks[k].index + 1 = i
         THEN LET k == CHOOSE k \in 1..Len(blocks) : blocks[k].index + 1 = i
              IN  <<"\n">> \o WithoutBlocks(s, blocks, MatchEnd(blocks[k]) + 1)
         ELSE <<s[i]>> \o WithoutBlocks(s, blocks, i + 1)

\* C3: the text of every shopping list block is removed from the working
\* text before it is split into lines: the steps are those of the recipe
\* lines outside the blocks, and no step item comes from a block.
C3_BlocksNeverReachSteps ==
    pc = "done" =>
        LET stripped == stripComments(source)
            outside == WithoutBlocks(stripped, shoppingListMatches(stripped, 1), 1)
        IN  result.steps = parseSteps(outside, <<>>).steps

\* C4: every timer annotation of a step line gives exactly one Timer item,
\* whose quantity is 0 when the braces give none and whose units are the
\* empty string when none are given.
C4_EveryTimerAnnotationGivesATimer ==
    pc = "done" =>
        LET tm == Annotations("~")
            timers == OfType(StepItems, "timer")
        IN  /\ Len(tm) = Len(timers)
            /\ \A k \in 1..Len(tm) :
                   /\ Blank(Group(tm[k], 12)) => timers[k].quantity = Num(0)
                   /\ Blank(Group(tm[k], 13)) => timers[k].units = Str(<<>>)

\* the strings Number reads as a number
Clean(s) == ~isNaN(Number(Str(s)))

\* C5: parseQuantity of a blank input is unresolved; of L/R (L and R not
\* empty) it is a number only when L and R are clean numbers neither of which
\* begins with 0, and the trimmed input itself whenever L or R begins with 0;
\* with no /, a clean number is returned as a number and any other text as
\* the trimmed string.
C5_QuotientOnlyWithoutLeadingZero ==
    pc = "done" =>
        IF Blank(quantity) THEN ret = Undefined
        ELSE
            LET t == Trim(quantity.str)
                parts == Split(t, "/")
                leadingZero == startsWith(parts[1], "0") \/ startsWith(parts[2], "0")
            IN  CASE Len(parts) = 1 ->
                        ret = (IF Clean(t) THEN Number(Str(t)) ELSE Str(t))
                  [] Len(parts) = 2 /\ parts[1] # <<>> /\ parts[2] # <<>> ->
                        /\ leadingZero => ret = Str(t)
                        /\ ret.kind = "number"
                               => Clean(parts[1]) /\ Clean(parts[2]) /\ ~leadingZero
                  [] OTHER -> TRUE

\* C6: parse writes nothing to the console and leaves the fields of the
\* parser as the constructor set them.
C6_ParseHasNoEffect ==
    pc = "done" => console = <<>> /\ Constructed(options)

\* C7: a block comment ([- ... -] with any content) never reaches the
\* steps: when every [, ], - and c of the source lies inside a block
\* comment, no step item holds any of these characters.
C7_BlockCommentsNeverReachSteps ==
    LET marked == {"[", "]", "-", "c"}
        outside == replaceBlockComment(source)
        clear(v) == \A i \in 1..Len(v.str) : v.str[i] \notin marked
    IN  (pc = "done" /\ \A i \in 1..Len(outside) : outside[i] \notin marked)
            => \A k \in 1..Len(StepItems) :
                   clear(StepItems[k].value) /\ clear(StepItems[k].name)

\* C9: the name of every Ingredient and Cookware item has no leading and no
\* trailing whitespace.
C9_NamesAreTrimmed ==
    pc = "done" => \A x \in Annotated : x.name.str = Trim(x.name.str)

====
